---- MODULE Spec2Model ----
(***************************************************************************)
(* Model of the ROI ingestion queue of wp5-mam-planner (Subtask.cpp):      *)
(* the deque of regions of interest, the parsing of a comma-separated      *)
(* waypoint descriptor, the duplicate check and the plane-alignment        *)
(* orientation solver.                                                     *)
(*                                                                         *)
(* A std::string is a sequence of one-character strings.  Coordinates are  *)
(* integers (the descriptors of the model carry integral numbers only).    *)
(* A quaternion is kept in exact symbolic form, see rotateVectorInPlan_.   *)
(***************************************************************************)
EXTENDS Integers, Sequences, FiniteSets, TLC

VARIABLES
  dequeROI_,   \* std::deque<ROI> dequeROI_
  robotPos_,   \* Eigen::Vector3d robotPos_   (third point of the plane)
  refVector_,  \* Eigen::Vector3d refVector_  (alignment target axis)
  halted,      \* TRUE once the process has died (crash, uncaught exception)
  last,        \* what the last operation returned, logged or threw
  accepted,    \* history: ids registered by parseROI_, oldest first, from
               \*   the first id of the current run of getROI calls on
  served,      \* history: ids returned by the getROI calls made since the
               \*   last registration or clearROI
  gone,        \* history: ids that left the queue, by getROI or clearROI,
               \*   since the last registration
  requeued,    \* history: the last step registered an id that had left
               \*   the queue before
  calls,       \* the activation of cbkROI_ of each callback thread: where
               \*   it stands, its locals, and what it has published
  retry        \* the activation of generateReachableWaypoint of the test
               \*   fixtures: where it stands, its local tries, and the
               \*   number of IK attempts that failed

vars == <<dequeROI_, robotPos_, refVector_, halted, last, accepted, served,
          gone, requeued, calls, retry>>

---------------------------------------------------------------------------
(* Bounds of the model *)

\* number of distinct non-empty waypoint identifiers the environment sends
NumIds == 2

\* an out-of-bounds read of waypointsPos yields a value of 0..MaxGarbage
MaxGarbage == 1

---------------------------------------------------------------------------
(* Characters and strings *)

Digits == <<"0", "1", "2", "3", "4", "5", "6", "7", "8", "9">>

IsDigit(c) == \E i \in 1..10 : Digits[i] = c

DigitVal(c) == (CHOOSE i \in 1..10 : Digits[i] = c) - 1

Letters == <<"a", "b", "c", "d", "e", "f", "g", "h">>

\* the i-th identifier the environment uses: a, b, c, ...
IdOf(i) == <<Letters[((i - 1) % 8) + 1]>>

Ids == { IdOf(i) : i \in 1..NumIds }

\* the text of a small non-negative or negative integer
NumText(n) == IF n < 0 THEN <<"-", Digits[(-n) + 1]>> ELSE <<Digits[n + 1]>>

RECURSIVE Join(_)
\* the descriptor made of the given fields, separated by commas
Join(fields) ==
  IF Len(fields) = 0 THEN <<>>
  ELSE IF Len(fields) = 1 THEN fields[1]
  ELSE fields[1] \o <<",">> \o Join(Tail(fields))

---------------------------------------------------------------------------
(* 3D vectors *)

Zero3 == <<0, 0, 0>>

Sub(u, v) == <<u[1] - v[1], u[2] - v[2], u[3] - v[3]>>

Dot(u, v) == u[1] * v[1] + u[2] * v[2] + u[3] * v[3]

Cross(u, v) == <<u[2] * v[3] - u[3] * v[2],
                 u[3] * v[1] - u[1] * v[3],
                 u[1] * v[2] - u[2] * v[1]>>

---------------------------------------------------------------------------
(* Subtask::splitString_ and what it calls *)

RECURSIVE getline(_, _)
\* The tokens that repeated std::getline(ss, token, delimiter) extracts from
\* str until the stream fails: each call takes the characters up to the next
\* delimiter (which it discards) or up to the end; a call that finds the
\* stream already at its end extracts nothing and ends the loop, so a
\* trailing delimiter yields no empty last token and "" yields no token.
getline(str, delimiter) ==
  IF Len(str) = 0 THEN <<>>
  ELSE IF \E i \in 1..Len(str) : str[i] = delimiter
       THEN LET i == CHOOSE k \in 1..Len(str) :
                       /\ str[k] = delimiter
                       /\ \A j \in 1..(k - 1) : str[j] # delimiter
            IN  <<SubSeq(str, 1, i - 1)>> \o getline(SubSeq(str, i + 1, Len(str)), delimiter)
       ELSE <<str>>

\* the token without its optional sign
Unsigned(token) ==
  IF Len(token) > 0 /\ token[1] \in {"-", "+"} THEN Tail(token) ELSE token

\* the length of the longest prefix of s made of decimal digits
DigitRun(s) ==
  CHOOSE n \in 0..Len(s) :
    /\ \A j \in 1..n : IsDigit(s[j])
    /\ n < Len(s) => ~IsDigit(s[n + 1])

RECURSIVE DecVal(_)
DecVal(ds) ==
  IF Len(ds) = 0 THEN 0
  ELSE 10 * DecVal(SubSeq(ds, 1, Len(ds) - 1)) + DigitVal(ds[Len(ds)])

\* std::stod throws std::invalid_argument when no conversion can be done
StodThrows(token) == DigitRun(Unsigned(token)) = 0

\* (variant: the sign of the number is dropped)
stod_unsigned(token) ==
  LET u == Unsigned(token)
  IN  DecVal(SubSeq(u, 1, DigitRun(u)))

\* std::stod converts the longest prefix that is a number and ignores the
\* rest of the token
stod(token) ==
  LET u == Unsigned(token)
      v == DecVal(SubSeq(u, 1, DigitRun(u)))
  IN  IF Len(token) > 0 /\ token[1] = "-" THEN 0 - v ELSE v

\* the result of splitString_: threw, or the out-parameters waypointID and
\* waypointsPos
splitString_(str, delimiter) ==
  LET tokens == getline(str, delimiter)
      nums == IF Len(tokens) = 0 THEN <<>> ELSE Tail(tokens)
  IN  IF \E j \in 1..Len(nums) : StodThrows(nums[j])
      THEN [threw |-> TRUE, waypointID |-> <<>>, waypointsPos |-> <<>>]
      ELSE [threw |-> FALSE,
            waypointID |-> IF Len(tokens) = 0 THEN <<>> ELSE tokens[1],
            waypointsPos |-> [j \in 1..Len(nums) |-> stod(nums[j])]]

---------------------------------------------------------------------------
(* Subtask::rotateVectorInPlan_ *)

\* default of the parameter theta (in-plane rotation angle)
theta == 0

Abs(n) == IF n < 0 THEN 0 - n ELSE n

RECURSIVE Gcd(_, _)
Gcd(a, b) == IF b = 0 THEN a ELSE Gcd(b, a % b)

\* Eigen's normalized() (Eigen 3.3 and later): v / |v|, and v itself when
\* |v| = 0.  A unit vector
\* is kept as the primitive integer vector of its direction, so that two
\* vectors have the same normalized() exactly when they point the same way.
normalized(v) ==
  LET g == Gcd(Gcd(Abs(v[1]), Abs(v[2])), Abs(v[3]))
  IN  IF g = 0 THEN v ELSE <<v[1] \div g, v[2] \div g, v[3] \div g>>

\* The angle acos(dot / (normU * normV)) is kept as the sign of its cosine
\* and the reduced fraction cos^2 = dot^2 / (|u|^2 |v|^2); the quotient is
\* 0/0, and the angle NaN, when one of the two vectors is the zero vector.
AngleBetween(u, v) ==
  LET d == Dot(u, v)
      n2 == Dot(u, u) * Dot(v, v)
      g == Gcd(d * d, n2)
  IN  IF n2 = 0 THEN [nan |-> TRUE, sign |-> 0, cos2 |-> <<0, 1>>]
      ELSE [nan |-> FALSE,
            sign |-> IF d > 0 THEN 1 ELSE IF d < 0 THEN -1 ELSE 0,
            cos2 |-> <<(d * d) \div g, n2 \div g>>]

\* Eigen::Quaterniond(cos(angle / 2), axis * sin(angle / 2)), kept as its
\* unit axis (Zero3 when the axis is the zero vector) and its angle; every
\* component is NaN when the angle is.
Quaterniond(axis, angle) ==
  IF angle.nan THEN [nan |-> TRUE, axis |-> Zero3, angle |-> angle]
  ELSE [nan |-> FALSE, axis |-> axis, angle |-> angle]

\* (variant: the operands of the cross product that gives the axis swapped)
rotateVectorInPlan_swapped(pointsArray, refVector) ==
  LET planVector1 == Sub(pointsArray[1], pointsArray[2])
      rotatedVectPlan == planVector1
      axisFinalRot == normalized(Cross(rotatedVectPlan, refVector))
      angleFinalRot == AngleBetween(refVector, rotatedVectPlan)
  IN  Quaterniond(axisFinalRot, angleFinalRot)

rotateVectorInPlan_(pointsArray, refVector) ==
  LET planVector1 == Sub(pointsArray[1], pointsArray[2])
      planVector2 == Sub(pointsArray[1], pointsArray[3])
      normalVector == normalized(Cross(planVector1, planVector2))
      \* theta = 0: quatRotation = (cos 0, normalVector * sin 0) = (1, 0, 0, 0)
      \* and quatRotation * planVector1 = planVector1
      rotatedVectPlan == planVector1
      axisFinalRot == normalized(Cross(refVector, rotatedVectPlan))
      angleFinalRot == AngleBetween(refVector, rotatedVectPlan)
  IN  Quaterniond(axisFinalRot, angleFinalRot)

Sgn(n) == IF n > 0 THEN 1 ELSE IF n < 0 THEN -1 ELSE 0

\* P sqrt(x) - S sqrt(y) = Q, for integers with x, y, Q >= 0, decided in
\* integers by squaring twice and comparing the signs
SurdEq(P, x, S, y, Q) ==
  LET Z == P * P * x + S * S * y - Q * Q
  IN  /\ Sgn(P) * P * P * x - Sgn(S) * S * S * y >= 0
      /\ Sgn(P) * Sgn(S) * Sgn(x * y) = Sgn(Z)
      /\ 4 * P * P * S * S * x * y = Z * Z

\* The quaternion q applied to the vector r (Eigen's q * r) has the direction
\* and sense of v.  For q = (cos(phi/2), u sin(phi/2)) with a unit axis u the
\* product is the rotation of r by phi about u, which is |r| v / |v| exactly
\* when r and v have the same component along u, the turn from r to v about u
\* is counter-clockwise (phi is in [0, pi]) and the parts of r and v across u
\* make the angle phi.  With the zero axis the vector part of q is zero and
\* q * r = r.
RotatesOnto(q, r, v) ==
  LET a == q.axis
      A == Dot(a, a)
      k == Dot(a, r)
      R == Dot(r, r)
      V == Dot(v, v)
      n == q.angle.cos2[1]
      d == q.angle.cos2[2]
  IN  /\ ~q.nan
      /\ R > 0
      /\ V > 0
      /\ IF a = Zero3
         THEN Cross(r, v) = Zero3 /\ Dot(r, v) > 0
         ELSE /\ Sgn(Dot(a, v)) = Sgn(k)
              /\ Dot(a, v) * Dot(a, v) * R = k * k * V
              /\ Dot(a, Cross(r, v)) >= 0
              /\ \/ R * A = k * k
                 \/ SurdEq(Dot(r, v) * A * d, R * V,
                           q.angle.sign * (R * A - k * k) * V, n * d,
                           k * k * V * d)

\* q * r is parallel to v, in its sense or in the opposite one
Parallel(q, r, v) ==
  RotatesOnto(q, r, v) \/ RotatesOnto(q, r, <<0 - v[1], 0 - v[2], 0 - v[3]>>)

---------------------------------------------------------------------------
(* The ROI record and the state of a Subtask *)

ROI(id, posStart, posEnd, quat) ==
  [id |-> id, posStart |-> posStart, posEnd |-> posEnd, quat |-> quat]

\* the quaternion (0, 0, 0, 0): angle pi about the zero axis
ZeroQuat == [nan |-> FALSE, axis |-> Zero3,
             angle |-> [nan |-> FALSE, sign |-> -1, cos2 |-> <<1, 1>>]]

\* ROI(): the all-default record returned in place of "no item"
DefaultROI == ROI(<<>>, Zero3, Zero3, ZeroQuat)

\* the values the external collaborator gives the reference state
RobotPositions == {<<2, 0, 0>>, <<0, 1, 0>>}

RefVectors == {<<0, 0, 1>>, <<1, 0, 0>>}

\* what an operation leaves behind for its caller and in the log:
\*   op        the operation
\*   outcome   of parseROI_: "registered", "duplicate" (the two ROS_INFO
\*             lines), "exception" (std::stod threw), "crash"
\*   sizeError of parseROI_: the ROS_ERROR "doesn't have the correct size"
\*   size      of parseROI_: waypointsPos.size()
\*   ret       of getROI: the record returned, as a one-element sequence
Last(op, outcome, sizeError, size, ret) ==
  [op |-> op, outcome |-> outcome, sizeError |-> sizeError, size |-> size, ret |-> ret]

\* the threads that can run callbacks
Threads == {"t1", "t2"}

\* no activation of cbkROI_
IdleFrame ==
  [pc |-> "idle", msg |-> <<>>, roi |-> DefaultROI, call |-> 0, i |-> 0, pubs |-> <<>>]

\* generateReachableWaypoint is not running
NoRetry == [pc |-> "idle", tries |-> 0, failed |-> 0]

Init ==
  /\ dequeROI_ = <<>>
  /\ robotPos_ \in RobotPositions
  /\ refVector_ \in RefVectors
  /\ halted = FALSE
  /\ last = Last("init", "none", FALSE, 0, <<>>)
  /\ accepted = <<>>
  /\ served = <<>>
  /\ gone = {}
  /\ requeued = FALSE
  /\ calls = [t \in Threads |-> IdleFrame]
  /\ retry = NoRetry

---------------------------------------------------------------------------
(* The messages of /ur5/roi_topic                                          *)

\* coordinates x0,y0,z0,x1,y1,z1: a segment along x, and a segment whose
\* two ends coincide
SegmentX == <<0, 0, 0, 1, 0, 0>>

Coincident == <<-1, 2, 3, -1, 2, 3>>

Descriptor(id, nums) == Join(<<id>> \o [j \in 1..Len(nums) |-> NumText(nums[j])])

\* id,x0,y0,z0,x1,y1,z1: every id with the segment along x, the first id
\* with the other coordinates too
WellFormed ==
  { Descriptor(id, SegmentX) : id \in Ids } \cup {Descriptor(IdOf(1), Coincident)}

\* 7 fields, the first of them empty
EmptyIdDescriptor == Descriptor(<<>>, <<0, 0, 0, 1, 0, 0>>)

\* fewer than 7 fields: five numbers, the id alone, the empty message
TooFew == {Descriptor(IdOf(1), <<0, 0, 0, 1, 0>>), IdOf(1), <<>>}

\* more than 7 fields: seven and eight numbers
TooMany == {Descriptor(IdOf(1), <<0, 0, 0, 1, 0, 0, 5>>),
            Descriptor(IdOf(1), <<0, 0, 0, 1, 0, 0, 5, 5>>)}

\* 7 fields, one of which is no number: "x"
NonNumeric == {Join(<<IdOf(1), <<"0">>, <<"x">>, <<"0">>, <<"1">>, <<"0">>, <<"0">>>>)}

\* 7 fields, one of which is a number followed by a letter: "1z"
PrefixNumeric == {Join(<<IdOf(1), <<"0">>, <<"0">>, <<"0">>, <<"1", "z">>, <<"0">>, <<"0">>>>)}

\* the 7 fields of a well-formed descriptor followed by a comma
TrailingComma == Descriptor(IdOf(1), <<0, 0, 0, 1, 0, 0>>) \o <<",">>

Descriptors ==
  WellFormed \cup TooFew \cup TooMany \cup NonNumeric \cup PrefixNumeric
    \cup {EmptyIdDescriptor, TrailingComma}

\* splitString_ depends on the message alone: its results, computed once
SplitTable == [msg \in Descriptors |-> splitString_(msg, ",")]

---------------------------------------------------------------------------
(* Operations *)

\* (variant: a single pending record counts as none)
empty_sizeOne == Len(dequeROI_) <= 1

\* Subtask::empty
empty == Len(dequeROI_) = 0

\* (variant: only the oldest record is dropped)
clearROI_popFront ==
  /\ ~halted
  /\ dequeROI_' = IF Len(dequeROI_) = 0 THEN <<>> ELSE Tail(dequeROI_)
  /\ last' = Last("clearROI", "none", FALSE, 0, <<>>)
  /\ UNCHANGED <<robotPos_, refVector_, halted>>

\* Subtask::clearROI
clearROI ==
  /\ ~halted
  /\ dequeROI_' = <<>>
  /\ last' = Last("clearROI", "none", FALSE, 0, <<>>)
  /\ UNCHANGED <<robotPos_, refVector_, halted>>

\* (variant: back() and pop_back() in place of front() and pop_front())
getROI_back ==
  /\ ~halted
  /\ IF ~empty
     THEN /\ last' = Last("getROI", "none", FALSE, 0, <<dequeROI_[Len(dequeROI_)]>>)
          /\ dequeROI_' = SubSeq(dequeROI_, 1, Len(dequeROI_) - 1)
     ELSE /\ last' = Last("getROI", "none", FALSE, 0, <<DefaultROI>>)
          /\ dequeROI_' = dequeROI_
  /\ UNCHANGED <<robotPos_, refVector_, halted>>

\* (variant: front() without pop_front())
getROI_noPop ==
  /\ ~halted
  /\ IF ~empty
     THEN last' = Last("getROI", "none", FALSE, 0, <<Head(dequeROI_)>>)
     ELSE last' = Last("getROI", "none", FALSE, 0, <<DefaultROI>>)
  /\ UNCHANGED <<dequeROI_, robotPos_, refVector_, halted>>

\* Subtask::getROI
getROI ==
  /\ ~halted
  /\ IF ~empty
     THEN /\ last' = Last("getROI", "none", FALSE, 0, <<Head(dequeROI_)>>)
          /\ dequeROI_' = Tail(dequeROI_)
     ELSE /\ last' = Last("getROI", "none", FALSE, 0, <<DefaultROI>>)
          /\ dequeROI_' = dequeROI_
  /\ UNCHANGED <<robotPos_, refVector_, halted>>

\* (variant: only the front record is compared)
isIdStored_frontOnly(id) == Len(dequeROI_) > 0 /\ dequeROI_[1].id = id

\* (variant: the loop stops one record short)
isIdStored_skipLast(id) == \E i \in 1..(Len(dequeROI_) - 1) : dequeROI_[i].id = id

\* (variant: an id that was stored earlier counts as stored)
isIdStored_remembered(id) ==
  (\E i \in 1..Len(dequeROI_) : dequeROI_[i].id = id) \/ id \in gone

\* Subtask::isIdStored_
isIdStored_(id) == \E i \in 1..Len(dequeROI_) : dequeROI_[i].id = id

MSG_SIZE == 7

GarbageVals == 0..MaxGarbage

\* The values that the reads waypointsPos[0] .. waypointsPos[5] can give.
\* A read below size() gives the element.  A read at or above size() is
\* undefined: on an empty vector (null data pointer) it faults; otherwise it
\* faults or gives whatever the heap holds there.  The result is the set of
\* the possible six-tuples; the process can crash when `CanFault`.
CanFault(waypointsPos) == Len(waypointsPos) < 6

ReadsOf(waypointsPos) ==
  LET size == Len(waypointsPos)
  IN  IF size = 0 THEN {}
      ELSE { [j \in 1..6 |-> IF j <= size THEN waypointsPos[j] ELSE g[j]] :
               g \in [(size + 1)..6 -> GarbageVals] }

\* (variant: a descriptor whose id is stored refreshes the stored record)
parseROI_refresh(str) ==
  LET sp == SplitTable[str]
      waypointID == sp.waypointID
      waypointsPos == sp.waypointsPos
      sizeError == Len(waypointsPos) # MSG_SIZE
      Fresh(r) == LET posStart == <<r[1], r[2], r[3]>>
                      posEnd == <<r[4], r[5], r[6]>>
                  IN  ROI(waypointID, posStart, posEnd,
                          rotateVectorInPlan_(<<posStart, posEnd, robotPos_>>, refVector_))
  IN
  /\ ~halted
  /\ UNCHANGED <<robotPos_, refVector_>>
  /\ IF sp.threw
     THEN /\ last' = Last("parseROI_", "exception", FALSE, 0, <<>>)
          /\ dequeROI_' = dequeROI_
          /\ halted' \in BOOLEAN
     ELSE IF ~isIdStored_(waypointID)
     THEN \/ \E r \in ReadsOf(waypointsPos) :
               /\ dequeROI_' = Append(dequeROI_, Fresh(r))
               /\ last' = Last("parseROI_", "registered", sizeError, Len(waypointsPos), <<>>)
               /\ halted' = halted
          \/ /\ CanFault(waypointsPos)
             /\ last' = Last("parseROI_", "crash", sizeError, Len(waypointsPos), <<>>)
             /\ dequeROI_' = dequeROI_
             /\ halted' = TRUE
     ELSE /\ last' = Last("parseROI_", "duplicate", sizeError, Len(waypointsPos), <<>>)
          /\ halted' = halted
          /\ IF ReadsOf(waypointsPos) = {}
             THEN dequeROI_' = dequeROI_
             ELSE \E r \in ReadsOf(waypointsPos) :
                    dequeROI_' = [i \in 1..Len(dequeROI_) |->
                                   IF dequeROI_[i].id = waypointID
                                   THEN Fresh(r) ELSE dequeROI_[i]]

\* Subtask::parseROI_
parseROI_(str) ==
  LET sp == SplitTable[str]
      waypointID == sp.waypointID
      waypointsPos == sp.waypointsPos
      sizeError == Len(waypointsPos) # MSG_SIZE
  IN
  /\ ~halted
  /\ UNCHANGED <<robotPos_, refVector_>>
  /\ IF sp.threw
     THEN \* std::invalid_argument leaves parseROI_; nothing catches it here
          /\ last' = Last("parseROI_", "exception", FALSE, 0, <<>>)
          /\ dequeROI_' = dequeROI_
          /\ halted' \in BOOLEAN
     ELSE IF ~isIdStored_(waypointID)
     THEN \/ \E r \in ReadsOf(waypointsPos) :
               LET posStart == <<r[1], r[2], r[3]>>
                   posEnd == <<r[4], r[5], r[6]>>
                   quat == rotateVectorInPlan_(<<posStart, posEnd, robotPos_>>, refVector_)
               IN  /\ dequeROI_' = Append(dequeROI_, ROI(waypointID, posStart, posEnd, quat))
                   /\ last' = Last("parseROI_", "registered", sizeError, Len(waypointsPos), <<>>)
                   /\ halted' = halted
          \/ /\ CanFault(waypointsPos)
             /\ last' = Last("parseROI_", "crash", sizeError, Len(waypointsPos), <<>>)
             /\ dequeROI_' = dequeROI_
             /\ halted' = TRUE
     ELSE /\ last' = Last("parseROI_", "duplicate", sizeError, Len(waypointsPos), <<>>)
          /\ dequeROI_' = dequeROI_
          /\ halted' = halted

\* Subtask::cbkROI_
cbkROI_(msg) == parseROI_(msg)

---------------------------------------------------------------------------
(* Scheduling *)

\* the id of a descriptor: its text before the first comma
FirstField(msg) ==
  LET stop == { i \in 1..Len(msg) : msg[i] = "," }
  IN  IF stop = {} THEN msg
      ELSE SubSeq(msg, 1, (CHOOSE i \in stop : \A j \in stop : i <= j) - 1)

\* a message is delivered and its callback runs to completion
Ingest ==
  \E msg \in Descriptors :
    /\ cbkROI_(msg)
    /\ UNCHANGED <<calls, retry>>
    /\ IF last'.outcome = "registered"
       THEN /\ accepted' = Append(SubSeq(accepted, Len(served) + 1, Len(accepted)),
                                  FirstField(msg))
            /\ served' = <<>>
            /\ gone' = {}
            /\ requeued' = (FirstField(msg) \in gone)
       ELSE /\ UNCHANGED <<accepted, served, gone>>
            /\ requeued' = FALSE

\* the motion-execution stage takes the next ROI
Consume ==
  /\ getROI
  /\ served' = IF last'.ret = <<DefaultROI>>
               THEN served ELSE Append(served, last'.ret[1].id)
  /\ gone' = IF last'.ret = <<DefaultROI>>
             THEN gone ELSE gone \cup {last'.ret[1].id}
  /\ requeued' = FALSE
  /\ UNCHANGED <<accepted, calls, retry>>

\* the motion-execution stage drops what is pending
Clear ==
  /\ clearROI
  /\ accepted' = <<>>
  /\ served' = <<>>
  /\ gone' = gone \cup { dequeROI_[i].id : i \in 1..Len(dequeROI_) }
  /\ requeued' = FALSE
  /\ UNCHANGED <<calls, retry>>

\* the motion-execution stage asks whether something is pending
IsEmpty ==
  /\ ~halted
  /\ last' = Last("empty", IF empty THEN "true" ELSE "false", FALSE, 0, <<>>)
  /\ requeued' = FALSE
  /\ UNCHANGED <<dequeROI_, robotPos_, refVector_, halted, accepted, served, gone, calls, retry>>

\* the collaborator moves the robot base
UpdateRobotPos ==
  /\ ~halted
  /\ \E p \in RobotPositions \ {robotPos_} : robotPos_' = p
  /\ last' = Last("update", "none", FALSE, 0, <<>>)
  /\ requeued' = FALSE
  /\ UNCHANGED <<dequeROI_, refVector_, halted, accepted, served, gone, calls, retry>>

\* the collaborator changes the reference direction
UpdateRefVector ==
  /\ ~halted
  /\ \E v \in RefVectors \ {refVector_} : refVector_' = v
  /\ last' = Last("update", "none", FALSE, 0, <<>>)
  /\ requeued' = FALSE
  /\ UNCHANGED <<dequeROI_, robotPos_, halted, accepted, served, gone, calls, retry>>

Next ==
  \/ Ingest
  \/ Consume
  \/ Clear
  \/ IsEmpty
  \/ UpdateRobotPos
  \/ UpdateRefVector

Spec == Init /\ [][Next]_vars

---------------------------------------------------------------------------
(* cbkROI_ in steps: the test of the id, the push_back and each debug      *)
(* publication are steps of their own, taken by a callback thread          *)

NB_PUBLISH == 3

\* geometry_msgs::PointStamped and PoseStamped as handed to a publisher
PointStamped(pos, pub) == [pub |-> pub, frame_id |-> "base_link", pos |-> pos]

PoseStamped(pos, quat, pub) ==
  [pub |-> pub, frame_id |-> "base_link", pos |-> pos, quat |-> quat]

\* (variant: the end point is published before the start point)
DebugArtifact_endFirst(roi, k) ==
  IF k = 1 THEN PointStamped(roi.posEnd, "pubWaypoint2_")
  ELSE IF k = 2 THEN PointStamped(roi.posStart, "pubWaypoint1_")
  ELSE IF k = 3 THEN PointStamped(robotPos_, "pubRobotBase_")
  ELSE PoseStamped(roi.posStart, roi.quat, "pubComputedQuat_")

\* what the k-th of the four publish calls of parseROI_ publishes
DebugArtifact(roi, k) ==
  IF k = 1 THEN PointStamped(roi.posStart, "pubWaypoint1_")
  ELSE IF k = 2 THEN PointStamped(roi.posEnd, "pubWaypoint2_")
  ELSE IF k = 3 THEN PointStamped(robotPos_, "pubRobotBase_")
  ELSE PoseStamped(roi.posStart, roi.quat, "pubComputedQuat_")

\* the log line parseROI_ ends with
Logged(f, outcome) ==
  LET waypointsPos == SplitTable[f.msg].waypointsPos
  IN  Last("parseROI_", outcome, Len(waypointsPos) # MSG_SIZE, Len(waypointsPos), <<>>)

\* thread t takes a message: splitString_ and the size test
Begin(t, msg) ==
  /\ ~halted
  /\ calls[t].pc = "idle"
  /\ IF SplitTable[msg].threw
     THEN /\ last' = Last("parseROI_", "exception", FALSE, 0, <<>>)
          /\ halted' \in BOOLEAN
          /\ UNCHANGED calls
     ELSE /\ calls' = [calls EXCEPT ![t] = [IdleFrame EXCEPT !.pc = "check", !.msg = msg]]
          /\ UNCHANGED <<last, halted>>
  /\ UNCHANGED <<dequeROI_, robotPos_, refVector_, accepted, served, gone, requeued, retry>>

\* if (!isIdStored_(waypointID))
Check(t) ==
  LET f == calls[t]
  IN  /\ ~halted
      /\ f.pc = "check"
      /\ IF ~isIdStored_(SplitTable[f.msg].waypointID)
         THEN /\ calls' = [calls EXCEPT ![t].pc = "push"]
              /\ UNCHANGED last
         ELSE /\ calls' = [calls EXCEPT ![t] = IdleFrame]
              /\ last' = Logged(f, "duplicate")
      /\ UNCHANGED <<dequeROI_, robotPos_, refVector_, halted,
                     accepted, served, gone, requeued, retry>>

\* (variant: the record is not in the queue while it is published)
Push_deferred(t) ==
  LET f == calls[t]
      sp == SplitTable[f.msg]
  IN  /\ ~halted
      /\ f.pc = "push"
      /\ \E r \in ReadsOf(sp.waypointsPos) :
           LET posStart == <<r[1], r[2], r[3]>>
               posEnd == <<r[4], r[5], r[6]>>
               quat == rotateVectorInPlan_(<<posStart, posEnd, robotPos_>>, refVector_)
               roi == ROI(sp.waypointID, posStart, posEnd, quat)
           IN  calls' = [calls EXCEPT ![t] = [f EXCEPT !.pc = "publish", !.roi = roi,
                                                       !.call = 1, !.i = 0]]
      /\ UNCHANGED <<dequeROI_, last, halted, robotPos_, refVector_,
                     accepted, served, gone, requeued, retry>>

\* the ROI is built and pushed
Push(t) ==
  LET f == calls[t]
      sp == SplitTable[f.msg]
  IN  /\ ~halted
      /\ f.pc = "push"
      /\ \/ \E r \in ReadsOf(sp.waypointsPos) :
              LET posStart == <<r[1], r[2], r[3]>>
                  posEnd == <<r[4], r[5], r[6]>>
                  quat == rotateVectorInPlan_(<<posStart, posEnd, robotPos_>>, refVector_)
                  roi == ROI(sp.waypointID, posStart, posEnd, quat)
              IN  /\ dequeROI_' = Append(dequeROI_, roi)
                  /\ calls' = [calls EXCEPT ![t] = [f EXCEPT !.pc = "publish", !.roi = roi,
                                                              !.call = 1, !.i = 0]]
                  /\ UNCHANGED <<last, halted>>
         \/ /\ CanFault(sp.waypointsPos)
            /\ last' = Logged(f, "crash")
            /\ halted' = TRUE
            /\ UNCHANGED <<dequeROI_, calls>>
      /\ UNCHANGED <<robotPos_, refVector_, accepted, served, gone, requeued, retry>>

\* one pass of the loop of publishWaypoint_ or publishPose_: publish, sleep
Publish(t) ==
  LET f == calls[t]
      more == f.i + 1 < NB_PUBLISH
  IN  /\ ~halted
      /\ f.pc = "publish"
      /\ f.call <= 4
      /\ calls' = [calls EXCEPT ![t] =
                     [f EXCEPT !.pubs = Append(f.pubs, DebugArtifact(f.roi, f.call)),
                               !.i = IF more THEN f.i + 1 ELSE 0,
                               !.call = IF more THEN f.call ELSE f.call + 1]]
      /\ UNCHANGED <<dequeROI_, robotPos_, refVector_, halted, last,
                     accepted, served, gone, requeued, retry>>

\* publish() or sleep() throws: the exception leaves the callback
PublishFails(t) ==
  LET f == calls[t]
  IN  /\ ~halted
      /\ f.pc = "publish"
      /\ f.call <= 4
      /\ calls' = [calls EXCEPT ![t] = IdleFrame]
      /\ last' = Logged(f, "publishFailed")
      /\ halted' \in BOOLEAN
      /\ UNCHANGED <<dequeROI_, robotPos_, refVector_, accepted, served, gone, requeued, retry>>

\* ROS_INFO "Waypoint registered", and parseROI_ returns
Return(t) ==
  LET f == calls[t]
  IN  /\ ~halted
      /\ f.pc = "publish"
      /\ f.call > 4
      /\ calls' = [calls EXCEPT ![t] = IdleFrame]
      /\ last' = Logged(f, "registered")
      /\ UNCHANGED <<dequeROI_, robotPos_, refVector_, halted,
                     accepted, served, gone, requeued, retry>>

\* the owner of the Subtask takes, or drops, what is pending
Take == getROI /\ UNCHANGED <<accepted, served, gone, requeued, calls, retry>>

Drop == clearROI /\ UNCHANGED <<accepted, served, gone, requeued, calls, retry>>

\* One spinner thread: callbacks run one at a time, to completion, and the
\* owner acts between them.
NextSerial ==
  \/ \E msg \in Descriptors : Begin("t1", msg)
  \/ Check("t1")
  \/ Push("t1")
  \/ Publish("t1")
  \/ PublishFails("t1")
  \/ Return("t1")
  \/ (calls["t1"].pc = "idle" /\ Take)
  \/ (calls["t1"].pc = "idle" /\ Drop)

SpecSerial == Init /\ [][NextSerial]_vars

\* the descriptors delivered to the concurrent callbacks
Contended == { Descriptor(IdOf(1), SegmentX), Descriptor(IdOf(1), Coincident) }

\* Several spinner threads: nothing in Subtask orders the steps of two
\* callbacks, or those of a callback and of the owner.
NextConcurrent ==
  \/ \E t \in Threads, msg \in Contended : Begin(t, msg)
  \/ \E t \in Threads : Check(t)
  \/ \E t \in Threads : Push(t)
  \/ \E t \in Threads : Publish(t)
  \/ \E t \in Threads : PublishFails(t)
  \/ \E t \in Threads : Return(t)
  \/ Take
  \/ Drop

SpecConcurrent == Init /\ [][NextConcurrent]_vars

---------------------------------------------------------------------------
(* generateReachableWaypoint of the test fixtures RoboticArmUrTest and     *)
(* RoboticArmUr5Test (the two copies differ only in the IK solver called)  *)

MAX_TRIES == 100

\* generateWaypoints calls generateReachableWaypoint: uint tries = 0
CallGenerate ==
  /\ retry.pc \in {"idle", "returned"}
  /\ retry' = [pc |-> "loop", tries |-> 0, failed |-> 0]
  /\ UNCHANGED <<dequeROI_, robotPos_, refVector_, halted, last, accepted, served,
                 gone, requeued, calls>>

\* One pass of while (true): tries++, a random pose is drawn and handed to
\* the IK solver, whose answer isValid is the solver's to give.  The pass
\* returns the pose when isValid, throws when tries > MAX_TRIES, and goes
\* round again otherwise.
Attempt(isValid) ==
  LET tries == retry.tries + 1
  IN  /\ retry.pc = "loop"
      /\ retry' = IF isValid
                  THEN [pc |-> "returned", tries |-> tries, failed |-> retry.failed]
                  ELSE IF tries > MAX_TRIES
                  THEN [pc |-> "thrown", tries |-> tries, failed |-> retry.failed + 1]
                  ELSE [pc |-> "loop", tries |-> tries, failed |-> retry.failed + 1]
      /\ UNCHANGED <<dequeROI_, robotPos_, refVector_, halted, last, accepted, served,
                     gone, requeued, calls>>

NextRetry ==
  \/ CallGenerate
  \/ \E isValid \in BOOLEAN : Attempt(isValid)

SpecRetry == Init /\ [][NextRetry]_vars

---------------------------------------------------------------------------
(* Vocabulary of the claims *)

\* the number of comma-separated fields of a descriptor
FieldCount(msg) ==
  IF Len(msg) = 0 THEN 0 ELSE Cardinality({ i \in 1..Len(msg) : msg[i] = "," }) + 1

StoredIds == { dequeROI_[i].id : i \in 1..Len(dequeROI_) }

IdsOf(q) == [i \in 1..Len(q) |-> q[i].id]

\* the descriptors id,x0,y0,z0,x1,y1,z1 with their id and their coordinates
WellFormedInputs ==
  { [id |-> p[1], pos |-> p[2], msg |-> Descriptor(p[1], p[2])] :
      p \in { q \in (Ids \cup {<<>>}) \X {SegmentX, Coincident} :
                Descriptor(q[1], q[2]) \in Descriptors } }

\* the descriptors with their id and their number of fields
DescriptorInfo ==
  { [msg |-> m, id |-> FirstField(m), fields |-> FieldCount(m)] : m \in Descriptors }

\* the three points are collinear or coincident
Degenerate(p0, p1, p2) == Cross(Sub(p0, p1), Sub(p0, p2)) = Zero3

---------------------------------------------------------------------------
(* C1: getROI returns the registered records oldest first: the ids the     *)
(* getROI calls of a run have returned are the first ids registered, in    *)
(* the order of their registration, and once all of them are returned the  *)
(* queue is empty.                                                         *)
C1_FifoOrder ==
  /\ Len(served) <= Len(accepted)
  /\ served = SubSeq(accepted, 1, Len(served))
  /\ served = accepted => empty

\* three distinct ids were registered into the empty queue and three getROI
\* calls have returned them
C1_Witness ==
  /\ last.op = "getROI"
  /\ Len(served) = 3
  /\ served = accepted
  /\ Cardinality({served[1], served[2], served[3]}) = 3
  /\ empty

(* C2: a descriptor whose id is the id of a stored record leaves the queue *)
(* exactly as it was.                                                      *)
C2_DuplicateIsNoOp ==
  [][(last'.op = "parseROI_" /\ dequeROI_' # dequeROI_) =>
       \A d \in DescriptorInfo : cbkROI_(d.msg) => d.id \notin StoredIds]_vars

\* a well-formed descriptor has been dropped as a duplicate of the stored
\* record of the first id, which carries the segment along x
C2_Witness ==
  /\ last.op = "parseROI_"
  /\ last.outcome = "duplicate"
  /\ last.size = 6
  /\ IdsOf(dequeROI_) = <<IdOf(1)>>
  /\ dequeROI_[1].posEnd = <<1, 0, 0>>

(* C3: no two stored records have the same id.                             *)
C3_UniqueIds ==
  \A i, j \in 1..Len(dequeROI_) : dequeROI_[i].id = dequeROI_[j].id => i = j

\* three records are stored and a descriptor has just been dropped as a
\* duplicate
C3_Witness ==
  /\ Len(dequeROI_) = 3
  /\ last.outcome = "duplicate"

(* C4: a descriptor that has not exactly 7 comma-separated fields leaves   *)
(* the queue unchanged.                                                    *)
C4_ArityRejected ==
  [][\A d \in DescriptorInfo :
       (d.fields # 7 /\ cbkROI_(d.msg)) => dequeROI_' = dequeROI_]_vars

(* C5: a descriptor id,x0,y0,z0,x1,y1,z1 whose id is not stored appends    *)
(* one record with that id, posStart = (x0,y0,z0) and posEnd = (x1,y1,z1)  *)
(* and leaves the records before it as they were.                          *)
C5_WellFormedAppends ==
  [][\A d \in WellFormedInputs :
       (d.id \notin StoredIds /\ cbkROI_(d.msg)) =>
          /\ Len(dequeROI_') = Len(dequeROI_) + 1
          /\ SubSeq(dequeROI_', 1, Len(dequeROI_)) = dequeROI_
          /\ dequeROI_'[Len(dequeROI_')].id = d.id
          /\ dequeROI_'[Len(dequeROI_')].posStart = <<d.pos[1], d.pos[2], d.pos[3]>>
          /\ dequeROI_'[Len(dequeROI_')].posEnd = <<d.pos[4], d.pos[5], d.pos[6]>>]_vars

\* a descriptor with six numbers has been registered behind another record,
\* with the negative coordinate of the second set of coordinates
C5_Witness ==
  /\ last.op = "parseROI_"
  /\ last.outcome = "registered"
  /\ last.size = 6
  /\ Len(dequeROI_) = 2
  /\ dequeROI_[2].posStart = <<-1, 2, 3>>

(* C6: parseROI_ reports the wrong-size error exactly when the number of   *)
(* numeric fields parsed after the id is not 6.                            *)
C6_SizeErrorIffNotSix ==
  (last.op = "parseROI_" /\ last.outcome # "exception") =>
     (last.sizeError <=> last.size # 6)

(* C7: a descriptor whose points posStart, posEnd and robotPos_ are        *)
(* collinear or coincident is not registered and appends no record.        *)
C7_DegenerateNotEnqueued ==
  [][\A d \in WellFormedInputs :
       ( /\ Degenerate(<<d.pos[1], d.pos[2], d.pos[3]>>, <<d.pos[4], d.pos[5], d.pos[6]>>, robotPos_)
         /\ cbkROI_(d.msg) )
       => (dequeROI_' = dequeROI_ /\ last'.outcome # "registered")]_vars

(* C8: a descriptor with a field after the id that is no decimal number    *)
(* creates no record, and no exception leaves the callback.                *)
C8_NonNumericHandled ==
  [][\A msg \in NonNumeric :
       cbkROI_(msg) => (dequeROI_' = dequeROI_ /\ last'.outcome # "exception" /\ ~halted')]_vars

(* C9: getROI on the empty queue returns the all-default ROI and leaves    *)
(* the queue empty; on a non-empty queue it returns the front record and   *)
(* removes exactly that record.  It never fails.                           *)
C9_GetROI ==
  [][last'.op = "getROI" =>
       /\ ~halted'
       /\ IF Len(dequeROI_) = 0
          THEN last'.ret = <<DefaultROI>> /\ dequeROI_' = <<>>
          ELSE /\ last'.ret = <<dequeROI_[1]>>
               /\ Len(dequeROI_') = Len(dequeROI_) - 1
               /\ dequeROI_' = SubSeq(dequeROI_, 2, Len(dequeROI_))]_vars

\* after a record had been returned, getROI has returned the sentinel
C9_Witness ==
  /\ last.op = "getROI"
  /\ last.ret = <<DefaultROI>>
  /\ Len(served) >= 1
  /\ empty

(* C10: clearROI leaves no pending record and does not touch robotPos_ and *)
(* refVector_; a getROI that follows it returns the all-default ROI.       *)
C10_Clear ==
  [][ /\ last'.op = "clearROI" =>
           (dequeROI_' = <<>> /\ robotPos_' = robotPos_ /\ refVector_' = refVector_)
      /\ (last.op = "clearROI" /\ last'.op = "getROI") =>
           (last'.ret = <<DefaultROI>> /\ dequeROI_' = <<>>) ]_vars

\* clearROI has run and nothing is pending
C10_Witness ==
  /\ last.op = "clearROI"
  /\ empty
  /\ accepted = <<>>

---------------------------------------------------------------------------
\* A quaternion (cos(a/2), u sin(a/2)) has norm 1 when no component is NaN and
\* u is a unit vector; with u the zero vector its norm is |cos(a/2)|, which
\* is 1 only for a = 0, that is cos a = 1.
NormIsOne(q) ==
  /\ ~q.nan
  /\ \/ q.axis # Zero3
     \/ (q.angle.sign = 1 /\ q.angle.cos2 = <<1, 1>>)

(* C11: every registered record leaves the queue exactly once: the ids     *)
(* registered since the current run of getROI calls began are the ids      *)
(* these calls returned followed by the ids still pending, each once; and  *)
(* after clearROI nothing registered before it is pending or returned.     *)
C11_ExactlyOnce ==
  /\ accepted = served \o IdsOf(dequeROI_)
  /\ last.op = "clearROI" => (accepted = <<>> /\ served = <<>> /\ empty)
  /\ last.op = "getROI" /\ last.ret # <<DefaultROI>> => last.ret[1].id \notin StoredIds

\* getROI has returned one record while another one stays pending
C11_Witness ==
  /\ last.op = "getROI"
  /\ Len(served) = 1
  /\ Len(dequeROI_) = 1
  /\ last.ret[1].id = served[1]
  /\ dequeROI_[1].id # served[1]

(* C12: every stored record has a non-empty id.                            *)
C12_NonEmptyId ==
  \A i \in 1..Len(dequeROI_) : dequeROI_[i].id # <<>>

(* C13: a call of empty() returns true exactly when no record is pending, *)
(* that is when as many records have been removed as were registered, and  *)
(* it leaves the queue as it was.                                          *)
C13_EmptyIffNonePending ==
  [][last'.op = "empty" =>
       /\ dequeROI_' = dequeROI_
       /\ (last'.outcome = "true") = (Len(accepted) - Len(served) = 0)
       /\ (last'.outcome = "true") = (Len(dequeROI_') = 0)
       /\ last'.outcome \in {"true", "false"}]_vars

\* empty() has answered true after every registered record was taken
C13_Witness ==
  /\ last.op = "empty"
  /\ last.outcome = "true"
  /\ Len(accepted) > 0
  /\ accepted = served

(* C15: when a record is registered for points posStart, posEnd and        *)
(* robotPos_ that are not collinear, its quaternion applied to refVector_  *)
(* gives a vector parallel to posStart - posEnd, and one of the same sense *)
(* unless refVector_ already lies along that line.                         *)
C15_Alignment ==
  [][(last'.op = "parseROI_" /\ last'.outcome = "registered") =>
       LET rec == dequeROI_'[Len(dequeROI_')]
           v1 == Sub(rec.posStart, rec.posEnd)
       IN  ~Degenerate(rec.posStart, rec.posEnd, robotPos_) =>
             /\ Parallel(rec.quat, refVector_, v1)
             /\ Cross(refVector_, v1) # Zero3 =>
                  RotatesOnto(rec.quat, refVector_, v1)]_vars

\* the segment (0,0,0)-(1,0,0) seen from (0,1,0) with the reference direction
\* (0,0,1) has been registered: the reference direction is turned onto
\* (-1,0,0)
C15_Witness ==
  /\ last.op = "parseROI_"
  /\ last.outcome = "registered"
  /\ robotPos_ = <<0, 1, 0>>
  /\ refVector_ = <<0, 0, 1>>
  /\ LET rec == dequeROI_[Len(dequeROI_)]
     IN  /\ rec.posStart = <<0, 0, 0>>
         /\ rec.posEnd = <<1, 0, 0>>
         /\ RotatesOnto(rec.quat, refVector_, <<-1, 0, 0>>)
         /\ ~RotatesOnto(rec.quat, refVector_, <<1, 0, 0>>)
         /\ ~RotatesOnto(rec.quat, refVector_, <<0, 0, 1>>)

(* C18: a stored record never changes: every step leaves the queue as it  *)
(* was, drops records from its front, or appends one record behind the     *)
(* unchanged ones; a change of robotPos_ or refVector_ leaves the queue as *)
(* it was; and the quaternion of an appended record is the one computed    *)
(* from robotPos_ and refVector_ as they are when it is appended.          *)
C18_RecordsImmutable ==
  [][/\ \/ \E k \in 1..(Len(dequeROI_) + 1) :
              dequeROI_' = SubSeq(dequeROI_, k, Len(dequeROI_))
        \/ /\ Len(dequeROI_') = Len(dequeROI_) + 1
           /\ SubSeq(dequeROI_', 1, Len(dequeROI_)) = dequeROI_
           /\ LET rec == dequeROI_'[Len(dequeROI_')]
              IN  rec.quat = rotateVectorInPlan_(<<rec.posStart, rec.posEnd, robotPos_>>,
                                                 refVector_)
     /\ (robotPos_' # robotPos_ \/ refVector_' # refVector_) => dequeROI_' = dequeROI_
    ]_vars

\* refVector_ has changed since a record was registered: the record keeps
\* the quaternion computed for the earlier direction
C18_Witness ==
  /\ last.op = "update"
  /\ \E i \in 1..Len(dequeROI_) :
       LET rec == dequeROI_[i]
       IN  /\ ~rec.quat.nan
           /\ rec.quat # rotateVectorInPlan_(<<rec.posStart, rec.posEnd, robotPos_>>,
                                              refVector_)

(* C20: only pending records count as duplicates: a well-formed descriptor *)
(* whose id has left the queue, returned by getROI or dropped by clearROI, *)
(* is registered again as a new record at the back of the queue.           *)
C20_RemovedIdAcceptedAgain ==
  [][\A d \in WellFormedInputs :
       (d.id \in gone /\ cbkROI_(d.msg)) =>
         /\ last'.outcome = "registered"
         /\ Len(dequeROI_') = Len(dequeROI_) + 1
         /\ dequeROI_'[Len(dequeROI_')].id = d.id
         /\ SubSeq(dequeROI_', 1, Len(dequeROI_)) = dequeROI_]_vars

\* the id a, which had left the queue, has just been registered again
C20_Witness ==
  /\ requeued
  /\ last.op = "parseROI_"
  /\ last.outcome = "registered"
  /\ dequeROI_[Len(dequeROI_)].id = <<"a">>

(* C16: in a callback that registers a record the record is at the back   *)
(* of the queue from before the first debug publication until the callback *)
(* ends, whether the publications complete, stop or fail: while a callback *)
(* is publishing the queue ends with its record and does not change, and   *)
(* nothing is published at any other point of a callback.                  *)
C16_QueuedBeforePublishing ==
  [][\A t \in Threads :
       /\ calls[t].pc = "publish" =>
            /\ Len(dequeROI_) > 0
            /\ dequeROI_[Len(dequeROI_)] = calls[t].roi
            /\ dequeROI_' = dequeROI_
       /\ calls'[t].pubs \notin {calls[t].pubs, <<>>} => calls[t].pc = "publish"
    ]_vars

\* a publication of the callback that registered b has failed: the record b
\* is in the queue, behind the record registered before it
C16_Witness ==
  /\ last.op = "parseROI_"
  /\ last.outcome = "publishFailed"
  /\ calls["t1"].pc = "idle"
  /\ Len(dequeROI_) = 2
  /\ dequeROI_[2].id = <<"b">>

(* C17: a callback that registers a record publishes the start point, the  *)
(* end point, the robot base and the computed pose, in this order and each *)
(* three times, and then returns; a callback that finds its id stored      *)
(* publishes nothing.                                                      *)
C17_TwelveArtifactsInOrder ==
  [][\A t \in Threads :
       LET f == calls[t]
           s == PointStamped(f.roi.posStart, "pubWaypoint1_")
           e == PointStamped(f.roi.posEnd, "pubWaypoint2_")
           b == PointStamped(robotPos_, "pubRobotBase_")
           q == PoseStamped(f.roi.posStart, f.roi.quat, "pubComputedQuat_")
           all == <<s, s, s, e, e, e, b, b, b, q, q, q>>
       IN  /\ (f.pc = "publish" /\ last'.outcome = "registered" /\ last' # last) =>
                f.pubs = all
           /\ f.pc = "publish" =>
                (Len(f.pubs) <= Len(all) /\ f.pubs = SubSeq(all, 1, Len(f.pubs)))
           /\ (f.pc = "push" /\ calls'[t].pc = "publish") => calls'[t].pubs = <<>>
           /\ f.pc \in {"idle", "check", "push"} => f.pubs = <<>>
           /\ (f.pc = "check" /\ calls'[t].pc = "idle") =>
                (last'.outcome = "duplicate" /\ calls'[t].pubs = <<>>)
    ]_vars

\* the twelve artifacts are out and the callback is about to return
C17_Witness ==
  LET f == calls["t1"]
  IN  /\ f.pc = "publish"
      /\ f.call > 4
      /\ Len(f.pubs) = 12
      /\ f.pubs[1].pub = "pubWaypoint1_"
      /\ f.pubs[4].pub = "pubWaypoint2_"
      /\ f.pubs[7].pub = "pubRobotBase_"
      /\ f.pubs[10].pub = "pubComputedQuat_"

(* C19: the test of the id and the push_back are one critical section:    *)
(* when two callbacks run at the same time the queue never holds two       *)
(* records of one id, and two callbacks never both register the same id.   *)
C19_CheckThenInsertAtomic ==
  /\ \A id \in StoredIds :
       Cardinality({ i \in 1..Len(dequeROI_) : dequeROI_[i].id = id }) = 1
  /\ \A t, u \in Threads :
       (t # u /\ calls[t].pc = "publish" /\ calls[u].pc = "publish") =>
         calls[t].roi.id # calls[u].roi.id

(* C21: generateReachableWaypoint returns at the first IK attempt that     *)
(* succeeds; when none succeeds it throws after exactly MAX_TRIES failed   *)
(* attempts; its loop never runs more than MAX_TRIES passes without        *)
(* ending.                                                                 *)
C21_BoundedRetry ==
  /\ retry.pc = "returned" => retry.failed = retry.tries - 1
  /\ retry.pc = "thrown" => retry.failed = MAX_TRIES
  /\ retry.pc = "loop" => (retry.failed = retry.tries /\ retry.tries <= MAX_TRIES)

(* C14: the quaternion of every stored record has norm 1 and no NaN        *)
(* component.                                                              *)
C14_UnitQuaternion ==
  \A i \in 1..Len(dequeROI_) : NormIsOne(dequeROI_[i].quat)

====
